---- MODULE Spec2Model ----
(***************************************************************************)
(* Model of the weather skill (WeatherSkill, src/__init__.py).             *)
(*                                                                         *)
(* One request is followed through the functions it calls, one action per  *)
(* function: the intent handler, _get_weather_config, the construction of  *)
(* WeatherIntent (inside _get_intent_data or directly in the routine),     *)
(* _get_weather, and the body of the report routine.  Everything the skill *)
(* says, shows or puts on the bus is appended to log, in call order.       *)
(***************************************************************************)
EXTENDS Integers, Sequences, FiniteSets, TLC

VARIABLES
    config_core,     \* self.config_core: the process-wide configuration
    stored_unit,     \* the system unit preference as stored before any request
    settings_units,  \* self.settings["units"] ("unset" when the key is absent)
    pc,              \* the function the request is about to run
    handler,         \* the handler serving the request
    arg,             \* days / temperature_type / condition passed by the handler
    lat_lon,         \* locals latitude, longitude of _get_weather_config
    weather_config,  \* the WeatherConfig returned by _get_weather_config
    utterance,       \* vocabularies the utterance matches (voc_match)
    intent_data,     \* the WeatherIntent, <<>> for None
    api_error,       \* what get_report did: "", "ok" or the exception raised
    weather,         \* the WeatherReport, <<>> for None
    fetches,         \* number of get_report calls of the request
    hour_offset,     \* relative-hour offset resolved against the hourly window
    forecast,        \* local forecast of the report routine
    log,             \* speak_dialog / gui / bus calls of the request, in order
    intent_error,    \* exception raised by WeatherIntent(...) ("" for none)
    raised,          \* exception that left the handler ("" for none)
    result,          \* return value of get_current_weather_homescreen
    unit_word_before, \* history: an earlier request carried a unit word
    config_error,    \* exception raised inside _get_weather_config ("" for none)
    threads          \* two requests in progress at once: per thread its
                     \* position in _get_weather_config / get_report

vars == <<config_core, stored_unit, settings_units, pc, handler, arg, lat_lon,
          weather_config, utterance, intent_data, api_error, weather, fetches,
          hour_offset, forecast, log, intent_error, raised, result,
          unit_word_before, config_error, threads>>

-----------------------------------------------------------------------------
(* Bounds and input sets *)

MaxDays == 9
MaxHourOffset == 50
DaysAvailable == 7
HoursAvailable == 48

Units == {"metric", "imperial"}
UnitSettings == {"unset", "default", "metric", "imperial"}
StoredCoordinate == <<7, 7>>
LatLons == {<<0, 5>>, <<5, 0>>, <<5, 5>>}
\* A lat_lon that does not unpack into latitude, longitude.
MalformedLatLon == <<5>>
Locations == {"", "Berlin"}
Vocab == {"relative-time", "later", "relative-day", "today"}
UnitWords == {"", "fahrenheit", "celsius"}
HttpStatuses == {"401", "500"}
FetchOutcomes == {"ok", "LocationNotFoundError", "Exception"}
                     \cup {"HTTPError" \o s : s \in HttpStatuses}
HourOffsets == {1} \cup (HoursAvailable .. MaxHourOffset)
DayCounts == 0 .. MaxDays
Categories == {"Clear", "Rain"}
Threads == {"voice", "homescreen"}
ThreadLatLons == {<<5, 5>>, <<3, 3>>}

None == <<>>
Some(x) == <<x>>

-----------------------------------------------------------------------------
(* Handlers and the routine each one calls *)

CurrentWeatherHandlers == {"handle_current_weather", "handle_like_outside"}
MultiDayHandlers == {"handle_number_days_forecast"}
OneDayHandlers == {"handle_one_day_forecast"}
OneHourHandlers == {"handle_weather_later", "handle_weather_at_time"}
WeekendHandlers == {"handle_weekend_forecast"}
WeekHandlers == {"handle_week_weather"}
TemperatureHandlers ==
    {"handle_current_temperature", "handle_daily_temperature",
     "handle_hourly_temperature", "handle_high_temperature",
     "handle_low_temperature", "handle_is_it_hot", "handle_how_hot_or_cold"}
WindHandlers == {"handle_is_it_windy", "handle_windy"}
ConditionHandlers ==
    {"handle_is_it_snowing", "handle_is_it_clear", "handle_is_it_cloudy",
     "handle_is_it_foggy", "handle_is_it_raining", "handle_need_umbrella",
     "handle_is_it_storming"}
InlineHandlers == {"handle_next_precipitation", "handle_humidity",
                   "handle_sunrise", "handle_sunset"}
HomescreenHandler == "get_current_weather_homescreen"

IntentHandlers ==
    CurrentWeatherHandlers \cup MultiDayHandlers \cup OneDayHandlers
    \cup OneHourHandlers \cup WeekendHandlers \cup WeekHandlers
    \cup TemperatureHandlers \cup WindHandlers \cup ConditionHandlers
    \cup InlineHandlers

\* Routines that build WeatherIntent themselves, outside _get_intent_data.
DirectIntentHandlers == OneDayHandlers \cup MultiDayHandlers \cup WeekHandlers

\* The argument each handler passes to its routine.
HandlerArgs(h) ==
    CASE h = "handle_number_days_forecast" ->
             {[days |-> d, kind |-> ""] : d \in DayCounts}
      [] h \in {"handle_current_temperature", "handle_daily_temperature",
                "handle_is_it_hot"} -> {[days |-> 0, kind |-> "current"]}
      [] h = "handle_hourly_temperature" -> {[days |-> 0, kind |-> "None"]}
      [] h = "handle_high_temperature" -> {[days |-> 0, kind |-> "high"]}
      [] h = "handle_low_temperature" -> {[days |-> 0, kind |-> "low"]}
      [] h = "handle_how_hot_or_cold" ->
             {[days |-> 0, kind |-> k] : k \in {"high", "low"}}
      [] h = "handle_is_it_snowing" -> {[days |-> 0, kind |-> "snow"]}
      [] h = "handle_is_it_clear" -> {[days |-> 0, kind |-> "clear"]}
      [] h = "handle_is_it_cloudy" -> {[days |-> 0, kind |-> "clouds"]}
      [] h = "handle_is_it_foggy" -> {[days |-> 0, kind |-> "fog"]}
      [] h \in {"handle_is_it_raining", "handle_need_umbrella"} ->
             {[days |-> 0, kind |-> "rain"]}
      [] h = "handle_is_it_storming" -> {[days |-> 0, kind |-> "thunderstorm"]}
      [] OTHER -> {[days |-> 0, kind |-> ""]}

NoArg == [days |-> 0, kind |-> ""]

-----------------------------------------------------------------------------
(* Log events *)

Event(t, n, d, i) ==
    [type |-> t, name |-> n, data |-> d, day |-> i, wait |-> FALSE]
\* self.speak_dialog(name, data): wait keeps its default.
Speak(n, d) == Event("speak", n, d, -1)
\* _speak_weather(dialog): self.speak_dialog(dialog.name, dialog.data, wait=True)
SpeakWeather(cls, build, d, i) ==
    [Event("speak_weather", cls \o "." \o build, d, i) EXCEPT !.wait = TRUE]
Show(page) == Event("show", page, "", -1)
Emit(msg, d) == Event("emit", msg, d, -1)

RECURSIVE Select(_, _)
Select(s, types) ==
    IF s = <<>> THEN <<>>
    ELSE IF Head(s).type \in types THEN <<Head(s)>> \o Select(Tail(s), types)
    ELSE Select(Tail(s), types)

Fallbacks == Select(log, {"speak"})
WeatherDialogs == Select(log, {"speak_weather"})
Spoken == Select(log, {"speak", "speak_weather"})
Shown == Select(log, {"show"})
Emitted == Select(log, {"emit"})

\* A thread that has not entered _get_weather_config.
ThreadStart ==
    [pc |-> "start", lat_lon |-> None, weather_config |-> None,
     fetched_for |-> None]

-----------------------------------------------------------------------------
(* The initial state: the skill is constructed and idle *)

Init ==
    /\ stored_unit \in Units
    /\ config_core = [system_unit |-> stored_unit,
                      latitude |-> StoredCoordinate[1],
                      longitude |-> StoredCoordinate[2]]
    /\ settings_units \in UnitSettings
    /\ pc = "idle"
    /\ handler = ""
    /\ arg = NoArg
    /\ lat_lon = None
    /\ weather_config = None
    /\ utterance = {}
    /\ intent_data = None
    /\ api_error = ""
    /\ weather = None
    /\ fetches = 0
    /\ hour_offset = -1
    /\ forecast = <<>>
    /\ log = <<>>
    /\ intent_error = ""
    /\ raised = ""
    /\ result = None
    /\ unit_word_before = FALSE
    /\ config_error = ""
    /\ threads = [t \in Threads |-> ThreadStart]

-----------------------------------------------------------------------------
(* Configuration Resolver *)

\* _get_weather_config: cfg is self.config_core itself (no copy), so what is
\* returned here is also what self.config_core holds afterwards.
get_weather_config(cfg, units, ll) ==
    LET c1 == IF units \notin {"unset", ""} /\ units # "default"
              THEN [cfg EXCEPT !.system_unit = units]
              ELSE cfg
    IN  IF ll # None /\ ll[1] # 0 /\ ll[2] # 0
        THEN [c1 EXCEPT !.latitude = ll[1], !.longitude = ll[2]]
        ELSE c1

-----------------------------------------------------------------------------
(* Intent Normalizer *)

CURRENT == "current"
HOURLY == "hourly"
DAILY == "daily"

voc_match(utt, voc) == voc \in utt

\* WeatherIntent(message, weather_config): timeframe starts as current and the
\* per-request unit override is not set.
WeatherIntent(location) ==
    [location |-> location, timeframe |-> CURRENT, units |-> ""]

\* The timeframe chain with relative-day tested before relative-time.
intent_timeframe_day_first(default, utt) ==
    IF voc_match(utt, "relative-day") /\ ~voc_match(utt, "today") THEN DAILY
    ELSE IF voc_match(utt, "relative-time") THEN HOURLY
    ELSE IF voc_match(utt, "later") THEN HOURLY
    ELSE default

\* The timeframe chain of _get_intent_data.
intent_timeframe(default, utt) ==
    IF voc_match(utt, "relative-time") THEN HOURLY
    ELSE IF voc_match(utt, "later") THEN HOURLY
    ELSE IF voc_match(utt, "relative-day") /\ ~voc_match(utt, "today") THEN DAILY
    ELSE default

\* The unit chain of _get_intent_data (intent_data.config.settings["units"]).
intent_units(default, unit) ==
    IF unit # "" /\ unit = "fahrenheit" THEN "imperial"
    ELSE IF unit # "" /\ unit = "celsius" THEN "metric"
    ELSE default

\* The unit system get_report(intent_data.config) is asked for: the request's
\* unit override when it has one, else the resolved configuration's.
resolved_unit(intent, config) ==
    IF intent.units # "" THEN intent.units ELSE config.system_unit

-----------------------------------------------------------------------------
(* Report Provider Adapter *)

DailyLength == DaysAvailable + 1
\* The report get_report returns: the daily sequence, and the condition
\* category and wind direction of the snapshot the intent is answered from.
Report ==
    [daily |-> [i \in 1 .. DailyLength |-> [day |-> i - 1, category |-> ""]],
     category |-> "Clear",
     wind_direction |-> "N"]

\* str.lower() of a condition category.
Lower(category) ==
    CASE category = "Clear" -> "clear"
      [] category = "Rain" -> "rain"
      [] OTHER -> category

\* weather.condition.description of a snapshot of that category.
Description(category) ==
    CASE category = "Clear" -> "clear sky"
      [] category = "Rain" -> "light rain"
      [] OTHER -> category

\* self.translate(wind_direction): the spoken name of a compass point.
translate(direction) ==
    CASE direction = "N" -> "north"
      [] OTHER -> direction

IsHTTPError(o) == o \in {"HTTPError" \o s : s \in HttpStatuses}

\* _handle_api_error without its else: the fallback is spoken after the signal.
handle_api_error_no_else(o) ==
    (IF o = "HTTPError401" THEN <<Emit("mycroft.not.paired", "")>> ELSE <<>>)
    \o <<Speak("cant-get-forecast", "")>>

\* _handle_api_error
handle_api_error(o) ==
    IF o = "HTTPError401"
    THEN <<Emit("mycroft.not.paired", "")>>
    ELSE <<Speak("cant-get-forecast", "")>>

\* _get_weather speaking the generic fallback after the specific one.
get_weather_except_twice(o, location) ==
    IF IsHTTPError(o) THEN handle_api_error(o)
    ELSE IF o = "LocationNotFoundError"
    THEN <<Speak("location-not-found", location), Speak("cant-get-forecast", "")>>
    ELSE <<Speak("cant-get-forecast", "")>>

\* _get_weather without its except LocationNotFoundError clause.
get_weather_except_generic(o, location) ==
    IF IsHTTPError(o) THEN handle_api_error(o)
    ELSE <<Speak("cant-get-forecast", "")>>

\* _get_weather speaking its own fallback after _handle_api_error returned.
get_weather_except_http_twice(o, location) ==
    IF IsHTTPError(o) THEN handle_api_error(o) \o <<Speak("cant-get-forecast", "")>>
    ELSE IF o = "LocationNotFoundError"
    THEN <<Speak("location-not-found", location)>>
    ELSE <<Speak("cant-get-forecast", "")>>

\* The except clauses of _get_weather, in source order.
get_weather_except(o, location) ==
    IF IsHTTPError(o) THEN handle_api_error(o)
    ELSE IF o = "LocationNotFoundError"
    THEN <<Speak("location-not-found", location)>>
    ELSE <<Speak("cant-get-forecast", "")>>

\* "if weather is not None:" at the head of every report routine.
after_get_weather(w) == IF w # None THEN "report" ELSE "done"

-----------------------------------------------------------------------------
(* Timeframe Resolver *)

\* WeatherReport.get_forecast_for_multiple_days: <<>> stands for IndexError.
get_forecast_for_multiple_days(report, n) ==
    IF n > DaysAvailable THEN None ELSE Some(SubSeq(report.daily, 2, n + 1))

\* WeatherReport.get_forecast_for_hour raises IndexError past the window.
hour_out_of_range(hour) == hour > HoursAvailable

SATURDAY == 5
SUNDAY == 6

\* WeatherReport.get_weekend_forecast, today being weekday wd (Monday = 0).
get_weekend_forecast(report, wd) ==
    LET RECURSIVE pick(_)
        pick(s) == IF s = <<>> THEN <<>>
                   ELSE IF (wd + Head(s).day) % 7 \in {SATURDAY, SUNDAY}
                        THEN <<Head(s)>> \o pick(Tail(s))
                        ELSE pick(Tail(s))
    IN  pick(report.daily)

\* get_dialog_for_timeframe
dialog_class(timeframe) ==
    CASE timeframe = HOURLY -> "HourlyDialog"
      [] timeframe = DAILY -> "DailyDialog"
      [] OTHER -> "CurrentDialog"

-----------------------------------------------------------------------------
(* Dialog Builder: what each report routine says and shows, in call order *)

\* _build_forecast_dialogs going through the forecast from its last day.
build_forecast_dialogs_reversed(fc) ==
    [i \in 1 .. Len(fc) |->
        SpeakWeather("DailyDialog", "build_weather_dialog", "",
                     fc[Len(fc) + 1 - i].day)]

\* _build_forecast_dialogs followed by the speaking loop: one DailyDialog a day.
build_forecast_dialogs(fc) ==
    [i \in 1 .. Len(fc) |->
        SpeakWeather("DailyDialog", "build_weather_dialog", "", fc[i].day)]

\* _report_current_weather speaking the high/low dialog before the conditions.
report_current_weather_high_low_first(g1, g2) ==
    (IF g1 THEN <<Show("CurrentWeather.qml")>>
           ELSE <<Event("enclosure", "weather_display", "", -1)>>)
    \o <<SpeakWeather("CurrentDialog", "build_high_low_temperature_dialog", "", -1),
         SpeakWeather("CurrentDialog", "build_weather_dialog", "", -1)>>
    \o (IF g2 THEN <<Show("HourlyForecast.qml"), Show("DailyForecast.qml")>>
             ELSE <<>>)

\* _report_current_weather, the gui being connected (g1, g2) at its two reads.
report_current_weather(g1, g2) ==
    (IF g1 THEN <<Show("CurrentWeather.qml")>>
           ELSE <<Event("enclosure", "weather_display", "", -1)>>)
    \o <<SpeakWeather("CurrentDialog", "build_weather_dialog", "", -1),
         SpeakWeather("CurrentDialog", "build_high_low_temperature_dialog", "", -1)>>
    \o (IF g2 THEN <<Show("HourlyForecast.qml"), Show("DailyForecast.qml")>>
             ELSE <<>>)

\* _report_one_hour_weather without its else: the dialog follows the notice.
report_one_hour_weather_no_else(hour) ==
    (IF hour_out_of_range(hour)
     THEN <<Speak("forty-eight-hours-available", "")>> ELSE <<>>)
    \o <<SpeakWeather("HourlyDialog", "build_weather_dialog", "", -1)>>

\* _report_one_hour_weather: try / except IndexError / else.
report_one_hour_weather(hour) ==
    IF hour_out_of_range(hour)
    THEN <<Speak("forty-eight-hours-available", "")>>
    ELSE <<SpeakWeather("HourlyDialog", "build_weather_dialog", "", -1)>>

\* _report_one_day_forecast with the forecast of one date.
report_one_day_forecast(fc, g) ==
    (IF g THEN <<Show("SingleDay.qml")>> ELSE <<>>) \o build_forecast_dialogs(fc)

\* The forecast _report_multi_day_forecast ends up with.
multi_day_forecast(report, n) ==
    IF get_forecast_for_multiple_days(report, n) = None
    THEN get_forecast_for_multiple_days(report, DaysAvailable)[1]
    ELSE get_forecast_for_multiple_days(report, n)[1]

\* _report_multi_day_forecast speaking the notice once per reported day.
report_multi_day_forecast_notice_per_day(report, n) ==
    <<Show("DailyForecast.qml")>>
    \o (IF get_forecast_for_multiple_days(report, n) = None
        THEN [i \in 1 .. 2 * DaysAvailable |->
                IF i % 2 = 1
                THEN Speak("seven-days-available", "")
                ELSE build_forecast_dialogs(multi_day_forecast(report, n))[i \div 2]]
        ELSE build_forecast_dialogs(multi_day_forecast(report, n)))

\* _report_multi_day_forecast
report_multi_day_forecast(report, n) ==
    (IF get_forecast_for_multiple_days(report, n) = None
     THEN <<Speak("seven-days-available", "")>> ELSE <<>>)
    \o <<Show("DailyForecast.qml")>>
    \o build_forecast_dialogs(multi_day_forecast(report, n))

\* _report_weekend_forecast
report_weekend_forecast(fc) ==
    <<Show("DailyForecast.qml")>> \o build_forecast_dialogs(fc)

\* conditions taken from the first day only.
weekly_conditions_first_day(fc) == {fc[1].category}

\* conditions = set([daily.condition.category for daily in forecast])
weekly_conditions(fc) == {fc[i].category : i \in 1 .. Len(fc)}

\* _build_weekly_condition_dialogs: one WeeklyDialog per element of the set of
\* categories, in the order the set is iterated (order).
build_weekly_condition_dialogs(order) ==
    [i \in 1 .. Len(order) |->
        SpeakWeather("WeeklyDialog", "build_condition_dialog", order[i], -1)]

\* _report_week_summary with the temperature dialog put before the
\* condition dialogs.
report_week_summary_temperature_first(order) ==
    <<Show("DailyForecast.qml")>>
    \o <<SpeakWeather("WeeklyDialog", "build_temperature_dialog", "", -1)>>
    \o build_weekly_condition_dialogs(order)

\* _report_week_summary
report_week_summary(order) ==
    <<Show("DailyForecast.qml")>>
    \o build_weekly_condition_dialogs(order)
    \o <<SpeakWeather("WeeklyDialog", "build_temperature_dialog", "", -1)>>

\* The orders in which a set of categories may be iterated.
Orders(S) ==
    {o \in UNION {[1 .. n -> S] : n \in {Cardinality(S)}} :
        \A i, j \in 1 .. Len(o) : i # j => o[i] # o[j]}

\* _report_wind: the snapshot's wind_direction is overwritten by its
\* translation before the dialog is built.
report_wind(report) ==
    [report EXCEPT !.wind_direction = translate(@)]

\* dialog.build_condition_dialog(intent_match): the affirmative template when
\* intent_match is True, the negative one otherwise.
condition_template(intent_match) ==
    IF intent_match THEN "build_condition_dialog(True)"
    ELSE "build_condition_dialog(False)"

\* _build_condition_dialog filling 'condition' with the asked-about keyword.
build_condition_dialog_asked_keyword(report, timeframe, condition) ==
    SpeakWeather(dialog_class(timeframe),
                 condition_template(voc_match({Lower(report.category)}, condition)),
                 condition, -1)

\* _build_condition_dialog
build_condition_dialog(report, timeframe, condition) ==
    SpeakWeather(dialog_class(timeframe),
                 condition_template(voc_match({Lower(report.category)}, condition)),
                 Description(report.category), -1)

\* The single dialog of _report_temperature, _report_weather_condition,
\* _report_wind, handle_humidity, handle_sunrise and handle_sunset, built
\* from report w.
single_dialog(h, timeframe, a, w) ==
    CASE h \in TemperatureHandlers ->
           <<SpeakWeather(dialog_class(timeframe), "build_temperature_dialog", a.kind, -1)>>
      [] h \in ConditionHandlers ->
           <<build_condition_dialog(w, timeframe, a.kind)>>
      [] h \in WindHandlers ->
           <<SpeakWeather(dialog_class(timeframe), "build_wind_dialog",
                          report_wind(w).wind_direction, -1)>>
      [] h = "handle_humidity" ->
           <<SpeakWeather(dialog_class(timeframe), "build_humidity_dialog", "", -1)>>
      [] h = "handle_sunrise" ->
           <<Show("SunriseSunset.qml"),
             SpeakWeather(dialog_class(timeframe), "build_sunrise_dialog", "", -1)>>
      [] h = "handle_sunset" ->
           <<Show("SunriseSunset.qml"),
             SpeakWeather(dialog_class(timeframe), "build_sunset_dialog", "", -1)>>
      [] OTHER -> <<>>

\* The report as the routine leaves it: intent_weather is a snapshot of the
\* report itself, so what _report_wind assigns is assigned in the report.
after_single_dialog(h, w) ==
    IF h \in WindHandlers THEN Some(report_wind(w[1])) ELSE w

SingleDialogHandlers ==
    TemperatureHandlers \cup ConditionHandlers \cup WindHandlers
    \cup {"handle_humidity", "handle_sunrise", "handle_sunset"}

-----------------------------------------------------------------------------
(* Actions *)

RequestVars == <<handler, arg, lat_lon, weather_config, utterance, intent_data,
                 api_error, weather, fetches, hour_offset, forecast, log,
                 intent_error, raised, result, config_error>>

\* The user changes the skill's unit setting between requests.
SetUnits ==
    /\ pc = "idle"
    /\ \E u \in UnitSettings \ {settings_units} : settings_units' = u
    /\ UNCHANGED <<config_core, stored_unit, unit_word_before, threads, pc,
                   RequestVars>>

\* An intent handler is called with a message and calls its routine.
HandleIntent ==
    /\ pc = "idle"
    /\ \E h \in IntentHandlers : \E a \in HandlerArgs(h) :
          /\ handler' = h
          /\ arg' = a
    /\ pc' = "_get_weather_config"
    /\ UNCHANGED <<config_core, stored_unit, unit_word_before, threads, config_error, settings_units, lat_lon,
                   weather_config, utterance, intent_data, api_error, weather,
                   fetches, hour_offset, forecast, log, intent_error, raised,
                   result>>

\* The bus delivers skill-ovos-weather.openvoiceos.weather.request.
HomescreenRequest ==
    /\ pc = "idle"
    /\ handler' = HomescreenHandler
    /\ pc' = "_get_weather_config"
    /\ UNCHANGED <<config_core, stored_unit, unit_word_before, threads, config_error, settings_units, arg, lat_lon,
                   weather_config, utterance, intent_data, api_error, weather,
                   fetches, hour_offset, forecast, log, intent_error, raised,
                   result>>

\* Where a ValueError raised inside _get_weather_config takes the request:
\* caught and spoken by _get_intent_data, logged by the home-screen handler,
\* not caught by the routines that call _get_weather_config themselves.
config_error_goes(h) ==
    IF h = HomescreenHandler
    THEN [pc |-> "done", log |-> <<>>, raised |-> ""]
    ELSE IF h \in DirectIntentHandlers
    THEN [pc |-> "done", log |-> <<>>, raised |-> "ValueError"]
    ELSE [pc |-> "_get_weather", log |-> <<Speak("cant-get-forecast", "")>>,
          raised |-> ""]

\* _get_weather_config(message).  A lat_lon that does not unpack raises
\* ValueError after the unit has been written.
GetWeatherConfig ==
    /\ pc = "_get_weather_config"
    /\ \/ /\ \E ll \in LatLons \cup {None} :
                /\ lat_lon' = ll
                /\ config_core' = get_weather_config(config_core, settings_units, ll)
          /\ weather_config' = Some(config_core')
          /\ config_error' = ""
          /\ pc' = IF handler = HomescreenHandler THEN "get_report"
                   ELSE "WeatherIntent"
          /\ UNCHANGED <<log, raised>>
       \/ /\ Len(MalformedLatLon) # 2
          /\ config_core' = get_weather_config(config_core, settings_units, None)
          /\ config_error' = "ValueError"
          /\ pc' = config_error_goes(handler).pc
          /\ log' = log \o config_error_goes(handler).log
          /\ raised' = config_error_goes(handler).raised
          /\ UNCHANGED <<lat_lon, weather_config>>
    /\ UNCHANGED <<stored_unit, unit_word_before, threads, settings_units,
                   handler, arg, utterance, intent_data, api_error, weather,
                   fetches, hour_offset, forecast, intent_error, result>>

\* _get_intent_data after its call of _get_weather_config: WeatherIntent(...)
\* inside try / except ValueError / else.
GetIntentData ==
    /\ pc = "WeatherIntent"
    /\ handler \notin DirectIntentHandlers
    /\ \/ /\ intent_error' = "ValueError"
          /\ intent_data' = None
          /\ utterance' = {}
          /\ log' = Append(log, Speak("cant-get-forecast", ""))
       \/ \E loc \in Locations, utt \in SUBSET Vocab, unit \in UnitWords :
             /\ intent_error' = ""
             /\ utterance' = utt \cup (IF unit = "" THEN {} ELSE {unit})
             /\ intent_data' =
                   Some([WeatherIntent(loc) EXCEPT
                           !.timeframe = intent_timeframe(@, utt),
                           !.units = intent_units(@, unit)])
             /\ log' = log
    /\ lat_lon' = None
    /\ pc' = "_get_weather"
    /\ UNCHANGED <<config_core, stored_unit, unit_word_before, threads, config_error, settings_units, handler, arg,
                   weather_config, api_error, weather, fetches, hour_offset,
                   forecast, raised, result>>

\* WeatherIntent(message, weather_config) called by the routine itself
\* (_report_one_day_forecast, _report_multi_day_forecast, _report_week_summary).
ConstructIntent ==
    /\ pc = "WeatherIntent"
    /\ handler \in DirectIntentHandlers
    /\ \/ /\ intent_error' = "ValueError"
          /\ intent_data' = None
          /\ raised' = "ValueError"
          /\ pc' = "done"
       \/ \E loc \in Locations :
             /\ intent_error' = ""
             /\ intent_data' = Some(WeatherIntent(loc))
             /\ raised' = raised
             /\ pc' = "_get_weather"
    /\ lat_lon' = None
    /\ UNCHANGED <<config_core, stored_unit, unit_word_before, threads, config_error, settings_units, handler, arg,
                   weather_config, utterance, api_error, weather, fetches,
                   hour_offset, forecast, log, result>>

\* The condition categories the provider may report; only the condition
\* routines read the category.
ReportCategories(h) ==
    IF h \in ConditionHandlers THEN Categories ELSE {Report.category}

\* _get_weather(intent_data) and the routine's test of what it returned.
GetWeather ==
    /\ pc = "_get_weather"
    /\ \/ /\ intent_data = None
          /\ UNCHANGED <<api_error, weather, fetches, log>>
       \/ /\ intent_data # None
          /\ \E o \in FetchOutcomes, cat \in ReportCategories(handler) :
                /\ api_error' = o
                /\ fetches' = fetches + 1
                /\ weather' = IF o = "ok"
                              THEN Some([Report EXCEPT !.category = cat])
                              ELSE None
                /\ log' = IF o = "ok" THEN log
                          ELSE log \o get_weather_except(o, intent_data[1].location)
    /\ utterance' = {}
    /\ pc' = after_get_weather(weather')
    /\ UNCHANGED <<config_core, stored_unit, unit_word_before, threads, config_error, settings_units, handler, arg,
                   lat_lon, weather_config, intent_data, hour_offset, forecast,
                   intent_error, raised, result>>

ReportFrame == <<config_core, stored_unit, unit_word_before, threads, config_error, settings_units, handler, arg, lat_lon,
                 weather_config, utterance, api_error, fetches,
                 intent_error, result>>

\* _report_current_weather
ReportCurrentWeather ==
    /\ pc = "report"
    /\ handler \in CurrentWeatherHandlers
    /\ \E g1 \in BOOLEAN, g2 \in BOOLEAN :
          log' = log \o report_current_weather(g1, g2)
    /\ pc' = "done"
    /\ UNCHANGED <<ReportFrame, weather, hour_offset, intent_data, forecast, raised>>

\* _report_one_hour_weather
ReportOneHourWeather ==
    /\ pc = "report"
    /\ handler \in OneHourHandlers
    /\ \E hour \in HourOffsets :
          /\ hour_offset' = hour
          /\ log' = log \o report_one_hour_weather(hour)
    /\ pc' = "done"
    /\ UNCHANGED <<ReportFrame, weather, intent_data, forecast, raised>>

\* _report_one_day_forecast
ReportOneDayForecast ==
    /\ pc = "report"
    /\ handler \in OneDayHandlers
    /\ \E d \in 1 .. DailyLength, g \in BOOLEAN :
          /\ forecast' = <<weather[1].daily[d]>>
          /\ log' = log \o report_one_day_forecast(forecast', g)
    /\ pc' = "done"
    /\ UNCHANGED <<ReportFrame, weather, hour_offset, intent_data, raised>>

\* _report_multi_day_forecast
ReportMultiDayForecast ==
    /\ pc = "report"
    /\ handler \in MultiDayHandlers
    /\ forecast' = multi_day_forecast(weather[1], arg.days)
    /\ log' = log \o report_multi_day_forecast(weather[1], arg.days)
    /\ pc' = "done"
    /\ UNCHANGED <<ReportFrame, weather, hour_offset, intent_data, raised>>

\* _report_weekend_forecast
ReportWeekendForecast ==
    /\ pc = "report"
    /\ handler \in WeekendHandlers
    /\ \E wd \in 0 .. 6 :
          /\ forecast' = get_weekend_forecast(weather[1], wd)
          /\ log' = log \o report_weekend_forecast(forecast')
    /\ pc' = "done"
    /\ UNCHANGED <<ReportFrame, weather, hour_offset, intent_data, raised>>

\* _report_week_summary: the seven days carry the categories the provider
\* returned for them.
ReportWeekSummary ==
    /\ pc = "report"
    /\ handler \in WeekHandlers
    /\ \E cats \in [1 .. DaysAvailable -> Categories] :
          /\ forecast' = [i \in 1 .. DaysAvailable |->
                            [day |-> i, category |-> cats[i]]]
          /\ \E order \in Orders(weekly_conditions(forecast')) :
                log' = log \o report_week_summary(order)
    /\ pc' = "done"
    /\ UNCHANGED <<ReportFrame, weather, hour_offset, intent_data, raised>>

\* _report_temperature, _report_weather_condition, _report_wind,
\* handle_humidity, handle_sunrise, handle_sunset: get_weather_for_intent,
\* then one dialog.  An hourly timeframe resolves through the hourly window.
ReportSingleDialog ==
    /\ pc = "report"
    /\ handler \in SingleDialogHandlers
    /\ \/ /\ intent_data[1].timeframe = HOURLY
          /\ \E hour \in HourOffsets :
                /\ hour_offset' = hour
                /\ IF hour_out_of_range(hour)
                   THEN raised' = "IndexError" /\ UNCHANGED <<log, weather>>
                   ELSE /\ raised' = raised
                        /\ log' = log \o single_dialog(handler, HOURLY, arg,
                                                       weather[1])
                        /\ weather' = after_single_dialog(handler, weather)
       \/ /\ intent_data[1].timeframe # HOURLY
          /\ hour_offset' = hour_offset
          /\ raised' = raised
          /\ log' = log \o single_dialog(handler, intent_data[1].timeframe, arg,
                                         weather[1])
          /\ weather' = after_single_dialog(handler, weather)
    /\ pc' = "done"
    /\ UNCHANGED <<ReportFrame, intent_data, forecast>>

\* handle_next_precipitation
HandleNextPrecipitation ==
    /\ pc = "report"
    /\ handler = "handle_next_precipitation"
    /\ \E tf \in {HOURLY, DAILY} :
          /\ intent_data' = Some([intent_data[1] EXCEPT !.timeframe = tf])
          /\ log' = Append(log, SpeakWeather(dialog_class(tf),
                                   "build_next_precipitation_dialog", "", -1))
    /\ pc' = "done"
    /\ UNCHANGED <<ReportFrame, weather, hour_offset, forecast, raised>>

\* get_current_weather_homescreen emitting the response in its except clause too.
get_current_weather_homescreen_emit_always(o, config) ==
    [result |-> IF o = "ok" THEN Some([system_unit |-> config.system_unit])
                ELSE None,
     log |-> <<Emit("skill-ovos-weather.openvoiceos.weather.response",
                    config.system_unit)>>]

\* get_current_weather_homescreen from get_report on: the mapping is built,
\* emitted and returned; any exception is logged and None is returned.
get_current_weather_homescreen(o, config) ==
    IF o = "ok"
    THEN [result |-> Some([system_unit |-> config.system_unit]),
          log |-> <<Emit("skill-ovos-weather.openvoiceos.weather.response",
                         config.system_unit)>>]
    ELSE [result |-> None, log |-> <<>>]

\* get_current_weather_homescreen after its call of _get_weather_config.
GetCurrentWeatherHomescreen ==
    /\ pc = "get_report"
    /\ \E o \in FetchOutcomes :
          /\ api_error' = o
          /\ fetches' = fetches + 1
          /\ weather' = IF o = "ok" THEN Some(Report) ELSE None
          /\ result' = get_current_weather_homescreen(o, weather_config[1]).result
          /\ log' = log \o get_current_weather_homescreen(o, weather_config[1]).log
    /\ pc' = "done"
    /\ UNCHANGED <<config_core, stored_unit, unit_word_before, threads,
                   config_error, settings_units, handler, arg, lat_lon,
                   weather_config, utterance, intent_data, hour_offset, forecast,
                   intent_error, raised>>

\* The handler returns; the request's objects are dropped.
Return ==
    /\ pc = "done"
    /\ pc' = "idle"
    /\ handler' = ""
    /\ arg' = NoArg
    /\ lat_lon' = None
    /\ weather_config' = None
    /\ utterance' = {}
    /\ intent_data' = None
    /\ api_error' = ""
    /\ weather' = None
    /\ fetches' = 0
    /\ hour_offset' = -1
    /\ forecast' = <<>>
    /\ log' = <<>>
    /\ intent_error' = ""
    /\ raised' = ""
    /\ result' = None
    /\ config_error' = ""
    /\ unit_word_before' =
          (unit_word_before \/ (intent_data # None /\ intent_data[1].units # ""))
    /\ UNCHANGED <<config_core, stored_unit, settings_units, threads>>

Next ==
    \/ SetUnits
    \/ HandleIntent
    \/ HomescreenRequest
    \/ GetWeatherConfig
    \/ GetIntentData
    \/ ConstructIntent
    \/ GetWeather
    \/ ReportCurrentWeather
    \/ ReportOneHourWeather
    \/ ReportOneDayForecast
    \/ ReportMultiDayForecast
    \/ ReportWeekendForecast
    \/ ReportWeekSummary
    \/ ReportSingleDialog
    \/ HandleNextPrecipitation
    \/ GetCurrentWeatherHomescreen
    \/ Return

Spec == Init /\ [][Next]_vars

-----------------------------------------------------------------------------
(* Two requests in progress at once: the bus delivers the home-screen event  *)
(* to get_current_weather_homescreen while an intent handler is running in   *)
(* its own thread.  Each thread runs _get_weather_config statement by        *)
(* statement and then calls get_report; self.config_core and self.settings   *)
(* are the skill's, all other names are locals of the thread.                *)

SequentialVars == <<stored_unit, settings_units, pc, RequestVars,
                    unit_word_before>>

ThreadStep(t, from, to) ==
    /\ threads[t].pc = from
    /\ threads' = [threads EXCEPT ![t].pc = to]

\* latitude, longitude = message.data["lat_lon"] (each message has its own).
ThreadReadMessage(t) ==
    /\ threads[t].pc = "start"
    /\ \E ll \in ThreadLatLons :
          threads' = [threads EXCEPT ![t] =
                        [ThreadStart EXCEPT !.pc = "system_unit", !.lat_lon = Some(ll)]]
    /\ UNCHANGED <<config_core, SequentialVars>>

\* cfg["system_unit"] = self.settings["units"]
ThreadWriteUnit(t) ==
    /\ ThreadStep(t, "system_unit", "latitude")
    /\ config_core' = get_weather_config(config_core, settings_units, None)
    /\ UNCHANGED SequentialVars

\* cfg["location"]["coordinate"]["latitude"] = latitude
ThreadWriteLatitude(t) ==
    /\ ThreadStep(t, "latitude", "longitude")
    /\ config_core' = [config_core EXCEPT !.latitude = threads[t].lat_lon[1][1]]
    /\ UNCHANGED SequentialVars

\* cfg["location"]["coordinate"]["longitude"] = longitude
ThreadWriteLongitude(t) ==
    /\ ThreadStep(t, "longitude", "WeatherConfig")
    /\ config_core' = [config_core EXCEPT !.longitude = threads[t].lat_lon[1][2]]
    /\ UNCHANGED SequentialVars

\* return WeatherConfig(cfg): the request's configuration, taken from cfg as
\* it is at this statement.
ThreadWeatherConfig(t) ==
    /\ threads[t].pc = "WeatherConfig"
    /\ threads' = [threads EXCEPT ![t].pc = "get_report",
                                  ![t].weather_config = Some(config_core)]
    /\ UNCHANGED <<config_core, SequentialVars>>

\* get_report(weather_config) / get_report(intent_data.config)
ThreadGetReport(t) ==
    /\ threads[t].pc = "get_report"
    /\ threads' = [threads EXCEPT ![t].pc = "done",
                                  ![t].fetched_for = threads[t].weather_config]
    /\ UNCHANGED <<config_core, SequentialVars>>

\* The handler of the thread returns.
ThreadReturn(t) ==
    /\ threads[t].pc = "done"
    /\ threads' = [threads EXCEPT ![t] = ThreadStart]
    /\ UNCHANGED <<config_core, SequentialVars>>

NextConc ==
    \E t \in Threads :
        \/ ThreadReadMessage(t)
        \/ ThreadWriteUnit(t)
        \/ ThreadWriteLatitude(t)
        \/ ThreadWriteLongitude(t)
        \/ ThreadWeatherConfig(t)
        \/ ThreadGetReport(t)
        \/ ThreadReturn(t)

SpecConc == Init /\ [][NextConc]_vars

-----------------------------------------------------------------------------
(* Properties *)

CantGetForecast == Speak("cant-get-forecast", "")
NotPaired == Emit("mycroft.not.paired", "")
FetchFailed == api_error \notin {"", "ok"}
IntentRequest == handler \in IntentHandlers

\* C1: when get_report raises HTTPError 401, the request emits
\* mycroft.not.paired exactly once, speaks nothing (no fallback, no weather
\* dialog), gets no report, and the handler ends without building anything.
C1_UnauthorizedSignalsPairing ==
    (IntentRequest /\ api_error = "HTTPError401") =>
        /\ log = <<NotPaired>>
        /\ Spoken = <<>>
        /\ weather = None
        /\ forecast = <<>>
        /\ pc = "done"

C1_Witness ==
    /\ handler = "handle_current_weather"
    /\ api_error = "HTTPError401"
    /\ Emitted = <<NotPaired>>
    /\ pc = "done"

\* C2: a request runs get_report at most once; when the fetch fails with
\* anything but HTTP 401 the request speaks exactly one fallback phrase, no
\* weather dialog, shows no page, and is over without a second fetch.
C2_SingleFetchSingleFallback ==
    /\ fetches <= 1
    /\ (IntentRequest /\ FetchFailed /\ api_error # "HTTPError401") =>
          /\ fetches = 1
          /\ Len(Fallbacks) = 1
          /\ log = Fallbacks
          /\ WeatherDialogs = <<>>
          /\ Shown = <<>>
          /\ pc = "done"

C2_Witness ==
    /\ handler = "handle_high_temperature"
    /\ api_error = "LocationNotFoundError"
    /\ fetches = 1
    /\ Len(Spoken) = 1
    /\ pc = "done"

\* C3: the fallback depends only on the failure type: LocationNotFoundError
\* speaks location-not-found with the requested location; an HTTPError other
\* than 401 and any other exception speak cant-get-forecast; an HTTPError 401
\* reaches neither the location nor the generic branch (nothing is spoken).
C3_FallbackByFailureType ==
    IntentRequest =>
        /\ api_error = "LocationNotFoundError" =>
              Spoken = <<Speak("location-not-found", intent_data[1].location)>>
        /\ api_error \in {"HTTPError500", "Exception"} =>
              Spoken = <<CantGetForecast>>
        /\ api_error = "HTTPError401" => Spoken = <<>>

C3_Witness ==
    /\ IntentRequest
    /\ api_error = "LocationNotFoundError"
    /\ intent_data # None
    /\ intent_data[1].location = "Berlin"
    /\ Spoken = <<Speak("location-not-found", "Berlin")>>

\* C4: for every intent handler, when WeatherIntent raises ValueError the
\* request speaks cant-get-forecast exactly once, fetches nothing, speaks no
\* weather dialog, and no exception leaves the handler.
C4_UnresolvedLocationFallback ==
    (IntentRequest /\ intent_error = "ValueError" /\ pc = "done") =>
        /\ Spoken = <<CantGetForecast>>
        /\ fetches = 0
        /\ raised = ""

\* C5: for a day count N > 7 the N-day handler speaks seven-days-available
\* exactly once, first, and then one daily dialog for each day of the 7-day
\* forecast, in order.
C5_SevenDayFallback ==
    (handler \in MultiDayHandlers /\ arg.days > DaysAvailable
       /\ weather # None /\ pc = "done") =>
        /\ Fallbacks = <<Speak("seven-days-available", "")>>
        /\ Head(Spoken) = Speak("seven-days-available", "")
        /\ Len(forecast) = DaysAvailable
        /\ Len(WeatherDialogs) = DaysAvailable
        /\ \A i \in 1 .. DaysAvailable :
              /\ forecast[i] = weather[1].daily[i + 1]
              /\ WeatherDialogs[i] =
                    SpeakWeather("DailyDialog", "build_weather_dialog", "",
                                 forecast[i].day)

C5_Witness ==
    /\ handler \in MultiDayHandlers
    /\ arg.days = DaysAvailable + 1
    /\ weather # None
    /\ Len(Spoken) = DaysAvailable + 1
    /\ pc = "done"

\* C6: for an hour offset H > 48 the one-hour handlers speak
\* forty-eight-hours-available exactly once, build no hourly dialog and say
\* nothing else in the request.
C6_HourOutOfRangeNotice ==
    (handler \in OneHourHandlers /\ hour_offset > HoursAvailable) =>
        /\ Spoken = <<Speak("forty-eight-hours-available", "")>>
        /\ WeatherDialogs = <<>>
        /\ raised = ""
        /\ pc = "done"

C6_Witness ==
    /\ handler = "handle_weather_at_time"
    /\ hour_offset = HoursAvailable + 1
    /\ Len(Fallbacks) = 1
    /\ pc = "done"

DayCountOutOfRange ==
    handler \in MultiDayHandlers /\ arg.days > DaysAvailable /\ weather # None

FailurePath ==
    \/ intent_error = "ValueError"
    \/ FetchFailed
    \/ hour_offset > HoursAvailable
    \/ DayCountOutOfRange

\* C7 as stated: every failure path of every handler results in at most one
\* spoken utterance.
C7_Original ==
    (IntentRequest /\ FailurePath) => Len(Spoken) <= 1

\* C7 as amended: every failure path other than a day count out of range
\* results in at most one spoken utterance; a day count out of range speaks
\* its notice once, followed by the seven daily dialogs.
C7_AtMostOneUtterancePerFailure ==
    IntentRequest =>
        /\ (FailurePath /\ ~DayCountOutOfRange) => Len(Spoken) <= 1
        /\ DayCountOutOfRange =>
              /\ Len(Fallbacks) <= 1
              /\ Len(WeatherDialogs) <= DaysAvailable
              /\ pc = "done" => Len(Spoken) = 1 + DaysAvailable

C7_Witness ==
    /\ handler = "handle_week_weather"
    /\ api_error = "HTTPError500"
    /\ Spoken = <<CantGetForecast>>
    /\ pc = "done"

\* C8: the timeframe set by _get_intent_data: relative-time gives hourly;
\* else later gives hourly; else relative-day without today gives daily; in
\* every other case it stays current.  relative-time together with
\* relative-day gives hourly.
C8_TimeframePriority ==
    (pc = "_get_weather" /\ handler \notin DirectIntentHandlers
       /\ intent_data # None) =>
        LET tf == intent_data[1].timeframe
            rt == "relative-time" \in utterance
            lt == "later" \in utterance
            rd == "relative-day" \in utterance
            td == "today" \in utterance
        IN  /\ rt => tf = "hourly"
            /\ (~rt /\ lt) => tf = "hourly"
            /\ (~rt /\ ~lt /\ rd /\ ~td) => tf = "daily"
            /\ (~rt /\ ~lt /\ ~(rd /\ ~td)) => tf = "current"

C8_Witness ==
    /\ pc = "_get_weather"
    /\ handler = "handle_hourly_temperature"
    /\ utterance = {"relative-time", "relative-day"}
    /\ intent_data[1].timeframe = "hourly"

\* C9: whenever the message carries lat_lon, the configuration returned by
\* _get_weather_config has the override's latitude and longitude, also when
\* one of them is 0.
C9_OverrideAlwaysWins ==
    (weather_config # None /\ lat_lon # None) =>
        /\ weather_config[1].latitude = lat_lon[1]
        /\ weather_config[1].longitude = lat_lon[2]

\* C10: the configuration resolved for a request has unit system U when the
\* units setting U is metric or imperial, and the stored system preference
\* when it is default or unset, whatever earlier requests were resolved with.
C10_UnitSettingResolution ==
    weather_config # None =>
        /\ settings_units \in Units =>
              weather_config[1].system_unit = settings_units
        /\ settings_units \in {"default", "unset"} =>
              weather_config[1].system_unit = stored_unit

\* C11: a unit word (fahrenheit gives imperial, celsius gives metric)
\* overrides the unit system of that request only: a later request with no
\* unit word resolves the unit system it would have resolved had the earlier
\* request never happened (the units setting when it is metric or imperial,
\* else the stored preference).
C11_UnitWordThisRequestOnly ==
    (intent_data # None /\ weather_config # None) =>
        LET unit == resolved_unit(intent_data[1], weather_config[1])
        IN  /\ "fahrenheit" \in utterance => unit = "imperial"
            /\ ("celsius" \in utterance /\ "fahrenheit" \notin utterance) =>
                  unit = "metric"
            /\ (unit_word_before /\ intent_data[1].units = "") =>
                  unit = IF settings_units \in Units THEN settings_units
                         ELSE stored_unit

StoredConfig ==
    [system_unit |-> stored_unit,
     latitude |-> StoredCoordinate[1],
     longitude |-> StoredCoordinate[2]]

\* C12: resolving the configuration of a request leaves self.config_core as
\* it was stored, so a request without lat_lon that follows a request with
\* lat_lon is resolved with the stored coordinate.
C12_ResolutionLeavesConfigCore ==
    /\ config_core.latitude = StoredConfig.latitude
    /\ config_core.longitude = StoredConfig.longitude
    /\ (weather_config # None /\ pc \in {"WeatherIntent", "get_report"}
          /\ lat_lon = None) =>
          /\ weather_config[1].latitude = StoredConfig.latitude
          /\ weather_config[1].longitude = StoredConfig.longitude

\* C13: with a home-screen request and a voice request in progress at the
\* same time, each thread calls get_report with the coordinate of its own
\* message, whatever the interleaving of their steps.
C13_EachFetchesForOwnMessage ==
    \A t \in Threads :
        threads[t].fetched_for # None =>
            /\ threads[t].fetched_for[1].latitude = threads[t].lat_lon[1][1]
            /\ threads[t].fetched_for[1].longitude = threads[t].lat_lon[1][2]

\* C14: a current-weather request that got its report speaks exactly two
\* dialogs, the current conditions first and the high/low temperatures
\* second, each with wait=True, and nothing else; every weather dialog of
\* every handler is spoken with wait=True, so the log order is the order in
\* which the speak calls finished.
C14_CurrentWeatherTwoDialogsInOrder ==
    /\ \A i \in 1 .. Len(log) : log[i].type = "speak_weather" => log[i].wait
    /\ (handler \in CurrentWeatherHandlers /\ weather # None /\ pc = "done") =>
          /\ Len(Spoken) = 2
          /\ Spoken[1].name = "CurrentDialog.build_weather_dialog"
          /\ Spoken[2].name = "CurrentDialog.build_high_low_temperature_dialog"
          /\ Spoken[1].wait /\ Spoken[2].wait

C14_Witness ==
    /\ handler = "handle_current_weather"
    /\ weather # None
    /\ pc = "done"
    /\ Len(WeatherDialogs) = 2
    /\ Shown # <<>>

WeekSummaryDone == handler \in WeekHandlers /\ weather # None /\ pc = "done"

\* The condition categories of the WeeklyDialog condition dialogs, as spoken.
RECURSIVE ConditionsSpoken(_)
ConditionsSpoken(s) ==
    IF s = <<>> THEN <<>>
    ELSE IF Head(s).name = "WeeklyDialog.build_condition_dialog"
         THEN <<Head(s).data>> \o ConditionsSpoken(Tail(s))
         ELSE ConditionsSpoken(Tail(s))

\* The categories of a forecast in the order of their first occurrence.
RECURSIVE FirstOccurrence(_, _)
FirstOccurrence(fc, seen) ==
    IF fc = <<>> THEN <<>>
    ELSE IF Head(fc).category \in seen THEN FirstOccurrence(Tail(fc), seen)
    ELSE <<Head(fc).category>>
         \o FirstOccurrence(Tail(fc), seen \cup {Head(fc).category})

\* C15: in a week summary over the 7-day forecast, every category present in
\* the forecast gets exactly one spoken condition dialog and every category
\* absent from it gets none.
C15_OneDialogPerCategory ==
    WeekSummaryDone =>
        /\ Len(forecast) = DaysAvailable
        /\ \A cat \in Categories :
              Cardinality({i \in 1 .. Len(ConditionsSpoken(log)) :
                              ConditionsSpoken(log)[i] = cat})
              = IF \E d \in 1 .. Len(forecast) : forecast[d].category = cat
                THEN 1 ELSE 0

C15_Witness ==
    /\ WeekSummaryDone
    /\ Len(ConditionsSpoken(log)) = 2
    /\ forecast[1].category = forecast[2].category
    /\ forecast[3].category # forecast[1].category

\* C16: the condition dialogs of a week summary are spoken in the order in
\* which their categories first occur in the 7-day daily sequence.
C16_FirstOccurrenceOrder ==
    WeekSummaryDone => ConditionsSpoken(log) = FirstOccurrence(forecast, {})

ResponseEvent == "skill-ovos-weather.openvoiceos.weather.response"

\* C17: a home-screen request emits the response event exactly once, before
\* the handler returns and carrying what is returned, exactly when the
\* configuration was resolved and get_report succeeded; on any failure it
\* emits nothing and returns nothing; in no case does it speak or let an
\* exception out.
C17_HomescreenResponse ==
    handler = HomescreenHandler =>
        /\ Spoken = <<>>
        /\ raised = ""
        /\ pc # "done" => log = <<>>
        /\ pc = "done" =>
              IF config_error = "" /\ api_error = "ok"
              THEN /\ Len(log) = 1
                   /\ log[1].type = "emit"
                   /\ log[1].name = ResponseEvent
                   /\ result # None
                   /\ log[1].data = result[1].system_unit
                   /\ log[1].data = weather_config[1].system_unit
              ELSE /\ log = <<>>
                   /\ result = None

C17_Witness ==
    /\ handler = HomescreenHandler
    /\ pc = "done"
    /\ api_error = "ok"
    /\ Len(Emitted) = 1
    /\ result # None

\* C18: a fetched report keeps every field it had when get_report returned
\* it, wind_direction included, until the request ends.
C18_ReportImmutable ==
    weather # None =>
        weather[1] = [Report EXCEPT !.category = weather[1].category]

ConditionAnswered ==
    /\ handler \in ConditionHandlers
    /\ weather # None
    /\ pc = "done"
    /\ raised = ""

\* C19: a condition request is answered with the affirmative template exactly
\* when the lower-cased category of the snapshot matches the asked-about
\* condition, with the negative template otherwise, and the dialog's
\* condition is the snapshot's description in both cases.
C19_ConditionTemplateAndFill ==
    ConditionAnswered =>
        LET dialog == Spoken[1]
            cls == dialog_class(intent_data[1].timeframe)
        IN  /\ Len(Spoken) = 1
            /\ dialog.type = "speak_weather"
            /\ dialog.name =
                  IF Lower(weather[1].category) = arg.kind
                  THEN cls \o ".build_condition_dialog(True)"
                  ELSE cls \o ".build_condition_dialog(False)"
            /\ dialog.data = Description(weather[1].category)
            /\ dialog.data # arg.kind

C19_Witness ==
    /\ ConditionAnswered
    /\ handler = "handle_is_it_raining"
    /\ weather[1].category = "Clear"
    /\ Spoken[1].name = "CurrentDialog.build_condition_dialog(False)"
    /\ Spoken[1].data = "clear sky"

DailyForecastDone ==
    /\ \/ handler \in OneDayHandlers \cup WeekendHandlers
       \/ handler \in MultiDayHandlers /\ arg.days <= DaysAvailable
    /\ weather # None
    /\ pc = "done"

\* C20: a one-day, N-day (N <= 7) or weekend request that got its report
\* speaks one daily dialog per snapshot of the resolved forecast, in the
\* order of the forecast, which is calendar order, without the
\* seven-days-available notice; the N-day and weekend routines show the
\* multi-day page before the first dialog.
C20_OneDailyDialogPerSnapshot ==
    DailyForecastDone =>
        /\ Fallbacks = <<>>
        /\ Len(WeatherDialogs) = Len(forecast)
        /\ \A i \in 1 .. Len(forecast) :
              /\ WeatherDialogs[i].name = "DailyDialog.build_weather_dialog"
              /\ WeatherDialogs[i].day = forecast[i].day
        /\ \A i, j \in 1 .. Len(forecast) :
              i < j => forecast[i].day < forecast[j].day
        /\ handler \in OneDayHandlers => Len(forecast) = 1
        /\ handler \in MultiDayHandlers => Len(forecast) = arg.days
        /\ handler \in MultiDayHandlers \cup WeekendHandlers =>
              /\ Shown = <<Show("DailyForecast.qml")>>
              /\ log = Shown \o WeatherDialogs

C20_Witness ==
    /\ DailyForecastDone
    /\ handler \in WeekendHandlers
    /\ Len(forecast) = 3
    /\ Len(WeatherDialogs) = 3
    /\ Head(log).type = "show"

WeeklyTemperatureDialog == "WeeklyDialog.build_temperature_dialog"

\* C21: a week-summary request that got its report speaks exactly one weekly
\* temperature dialog, as its last utterance, after every condition dialog;
\* it speaks as many dialogs as the 7-day forecast has distinct condition
\* categories, plus one.
C21_TemperatureDialogLast ==
    WeekSummaryDone =>
        /\ Fallbacks = <<>>
        /\ Len(Spoken) =
              Cardinality({forecast[d].category : d \in 1 .. Len(forecast)}) + 1
        /\ Spoken[Len(Spoken)].name = WeeklyTemperatureDialog
        /\ \A i \in 1 .. Len(Spoken) - 1 :
              Spoken[i].name = "WeeklyDialog.build_condition_dialog"
        /\ Cardinality({i \in 1 .. Len(Spoken) :
                           Spoken[i].name = WeeklyTemperatureDialog}) = 1

C21_Witness ==
    /\ WeekSummaryDone
    /\ Len(Spoken) = 3
    /\ Spoken[3].name = WeeklyTemperatureDialog
    /\ forecast[1].category # forecast[DaysAvailable].category

====
